---- MODULE Spec2Model ----
(***************************************************************************)
(* The review plugin of tsuno08/figma-reviewer: the UI page (ui.html), the *)
(* message handler of the plugin sandbox (code.ts) and the text sanitizer  *)
(* cleanReviewText.  Every await of the handler is a suspension point, so  *)
(* every action below runs one handler from one resumption to its next     *)
(* await (or to its return).                                               *)
(***************************************************************************)
EXTENDS Integers, Sequences, FiniteSets, TLC

VARIABLES
  storage,        \* figma.clientStorage: storage key -> value or Undefined
  disabled,       \* ui.html: getReviewButton.disabled
  toCore,         \* messages posted by the UI, not yet handled by the plugin
  toUI,           \* messages posted by the plugin, not yet handled by the UI
  loads,          \* load-api-key / load-figma-token handlers awaiting getAsync
  runs,           \* get-review handler invocations: slot -> locals and position
  closed,         \* the plugin was closed (figma.closePlugin or by the user)
  cpc, cin, cout, cout2   \* the sanitizer applied to one input text

vars == <<storage, disabled, toCore, toUI,
          loads, runs, closed, cpc, cin, cout, cout2>>

pipeVars == <<storage, disabled, toCore, toUI,
              loads, runs, closed>>
cleanVars == <<cpc, cin, cout, cout2>>

-----------------------------------------------------------------------------
(* Bounds of the model *)

\* handler invocations of get-review that can be suspended at the same time
MaxRuns == 2
\* messages the UI can have posted and the plugin not yet received
MaxQueue == 3
\* length of the texts given to the sanitizer
MaxLen == 6
\* get-review messages posted to the handler and not yet received, when the
\* page posts them at any time
MaxPending == 1

-----------------------------------------------------------------------------
(* Values *)

STORAGE_API_KEY == "gemini-api-key"
STORAGE_FIGMA_TOKEN == "figma-token"
StorageKeys == {STORAGE_API_KEY, STORAGE_FIGMA_TOKEN}

\* what getAsync resolves to for a key that was never set
Undefined == "undefined"
\* the secrets a user can type; "" is an empty field
ApiKeys == {"k1", "k2"}
FigmaTokens == {"t1", "t2"}
\* JavaScript truthiness of an optional string
Truthy(v) == v # Undefined /\ v # ""

Slots == 1..MaxRuns

\* node kinds of the host; the first three are the reviewable ones
ContainerKinds == {"FRAME", "COMPONENT", "INSTANCE"}
Selections == {<< >>, <<"FRAME">>, <<"COMPONENT">>, <<"INSTANCE">>, <<"TEXT">>,
               <<"FRAME", "FRAME">>, <<"TEXT", "FRAME">>}

\* HTTP statuses the two remote services answer with
ServiceStatuses == {200, 503, 400}
PublishStatuses == {200, 403}
ResponseOk(status) == status >= 200 /\ status <= 299

\* a parsed response body: whether candidates[0].content.parts[0] exists,
\* and the text found there
Bodies == {[path |-> TRUE, text |-> <<"#", "a", "\n", "-", "a">>],
           [path |-> TRUE, text |-> <<"*", "a", "*">>],
           [path |-> TRUE, text |-> << >>],
           [path |-> FALSE, text |-> << >>]}
\* figma.fileKey: the key of the open file, or Undefined
FileKeys == {"file1", Undefined}

-----------------------------------------------------------------------------
(* The sanitizer: cleanReviewText.  A text is a sequence of characters. *)

NL == "\n"
SP == " "
\* the character class of the first replace: backtick, star, underscore,
\* tilde, greater-than
\* (the backtick is written as a token: the parser takes none in a string)
Backtick == "BACKTICK"
Decoration == {Backtick, "*", "_", "~", ">"}
\* what String.prototype.trim removes (line terminators and white space)
Whitespace == {NL, SP}
\* the characters the checked input texts are made of
Alphabet == {"a", "#", "-", "*", NL, SP}
Texts == UNION {[1..n -> Alphabet] : n \in 0..MaxLen}

\* a first replace whose class holds the heading and the bullet marker too
StripDecorationAndMarkers(text) ==
  SelectSeq(text, LAMBDA c : c \notin Decoration \cup {"#", "-"})

\* the first replace: every character of the class is removed
StripDecoration(text) == SelectSeq(text, LAMBDA c : c \notin Decoration)

\* the length of the run of newlines text starts with
RECURSIVE NewlineRun(_)
NewlineRun(text) ==
  IF text = << >> \/ Head(text) # NL THEN 0 ELSE 1 + NewlineRun(Tail(text))

\* every maximal run of at least least newlines becomes two newlines,
\* scanning from the left as a global replace does
RECURSIVE CollapseRuns(_, _)
CollapseRuns(text, least) ==
  IF text = << >> THEN << >>
  ELSE LET n == NewlineRun(text) IN
       IF n >= least
         THEN <<NL, NL>> \o CollapseRuns(SubSeq(text, n + 1, Len(text)), least)
       ELSE IF n > 0
         THEN SubSeq(text, 1, n) \o CollapseRuns(SubSeq(text, n + 1, Len(text)), least)
       ELSE <<Head(text)>> \o CollapseRuns(Tail(text), least)

\* a second replace whose pattern asks for four newlines
CollapseNewlinesFromFour(text) == CollapseRuns(text, 4)

\* the second replace, of \n{3,} by two newlines
CollapseNewlines(text) == CollapseRuns(text, 3)

\* text.trim()
RECURSIVE TrimStart(_)
TrimStart(text) ==
  IF text # << >> /\ Head(text) \in Whitespace THEN TrimStart(Tail(text)) ELSE text
RECURSIVE TrimEnd(_)
TrimEnd(text) ==
  IF text # << >> /\ text[Len(text)] \in Whitespace
    THEN TrimEnd(SubSeq(text, 1, Len(text) - 1)) ELSE text
Trim(text) == TrimEnd(TrimStart(text))

\* a sanitizer that collapses the newlines before it strips the decoration
cleanReviewTextCollapseFirst(text) == Trim(StripDecoration(CollapseNewlines(text)))

cleanReviewText(text) == Trim(CollapseNewlines(StripDecoration(text)))

-----------------------------------------------------------------------------
(* Messages *)

\* every message has the same fields; a message uses the ones of its type
Msg(type, apiKey, figmaToken, seconds) ==
  [type |-> type, apiKey |-> apiKey, figmaToken |-> figmaToken, seconds |-> seconds]
LoadApiKey == Msg("load-api-key", "", "", 0)
LoadFigmaToken == Msg("load-figma-token", "", "", 0)
GetReview(apiKey, figmaToken) == Msg("get-review", apiKey, figmaToken, 0)
ApiKeyLoaded(apiKey) == Msg("api-key-loaded", apiKey, "", 0)
FigmaTokenLoaded(figmaToken) == Msg("figma-token-loaded", "", figmaToken, 0)
RetryNotification(seconds) == Msg("retry-notification", "", "", seconds)
Finished == Msg("finished", "", "", 0)

-----------------------------------------------------------------------------
(* The credential cache *)

getApiKey(st) == st[STORAGE_API_KEY]
getFigmaToken(st) == st[STORAGE_FIGMA_TOKEN]

saveApiKey(st, apiKey) == [st EXCEPT ![STORAGE_API_KEY] = apiKey]

\* a save of the token under the key of the API key
saveFigmaTokenWrongKey(st, figmaToken) == [st EXCEPT ![STORAGE_API_KEY] = figmaToken]

saveFigmaToken(st, figmaToken) == [st EXCEPT ![STORAGE_FIGMA_TOKEN] = figmaToken]

\* the reply a load handler posts for the value getAsync resolved to
loadReply(key, value) ==
  IF ~Truthy(value) THEN << >>
  ELSE IF key = STORAGE_API_KEY THEN <<ApiKeyLoaded(value)>>
  ELSE <<FigmaTokenLoaded(value)>>

-----------------------------------------------------------------------------
(* The UI page *)

\* a page that never disables its button
setUiLoadingStateNever(isLoading) == FALSE

\* setUiLoadingState(isLoading): the value getReviewButton.disabled takes
setUiLoadingState(isLoading) == isLoading

-----------------------------------------------------------------------------
(* The selection validator *)

\* a validator without the check for more than one selected node
validateSelectionFirstOnly(selection) ==
  IF Len(selection) = 0 THEN "NoSelection"
  ELSE IF selection[1] \notin ContainerKinds THEN "UnsupportedKind"
  ELSE "ok"

\* validateSelection(): "ok" when it returns the node, else why it returns null
validateSelection(selection) ==
  IF Len(selection) = 0 THEN "NoSelection"
  ELSE IF Len(selection) > 1 THEN "MultipleSelection"
  ELSE IF selection[1] \notin ContainerKinds THEN "UnsupportedKind"
  ELSE "ok"

-----------------------------------------------------------------------------
(* The retrying service client *)

\* the status requestGeminiAPI retries
BUSY == 503
\* the retries of one call: retryCount < 3
MAX_RETRIES == 3

RECURSIVE Pow2(_)
Pow2(n) == IF n = 0 THEN 1 ELSE 2 * Pow2(n - 1)

\* a wait that grows by one second per retry
waitTimeLinear(retryCount) == (retryCount + 1) * 1000

\* Math.pow(2, retryCount) * 1000
waitTime(retryCount) == Pow2(retryCount) * 1000

\* a client that retries once more
shouldRetryOnceMore(status, retryCount) == status = BUSY /\ retryCount <= MAX_RETRIES

\* a client that retries every failed request
shouldRetryAnyFailure(status, retryCount) ==
  ~ResponseOk(status) /\ retryCount < MAX_RETRIES

\* the condition of the retry branch
shouldRetry(status, retryCount) == status = BUSY /\ retryCount < MAX_RETRIES

-----------------------------------------------------------------------------
(* One invocation of the get-review handler *)

\* no body parsed yet
NoBody == [path |-> FALSE, text |-> <<"none">>]

IdleRun ==
  [pc |-> "idle",
   apiKey |-> "", figmaToken |-> "",          \* msg.apiKey, msg.figmaToken as received
   currentApiKey |-> "", currentFigmaToken |-> "",
   storedApiKey |-> Undefined,
   saved |-> {},                              \* the storage keys the run has set
   validated |-> FALSE, sel |-> << >>,        \* the selection validateSelection read
   selectedNode |-> "none",                   \* the node validateSelection returned
   fileKey |-> "unread",                      \* figma.fileKey as the handler read it
   commentNode |-> "none",                    \* the node_id of the comment
   retryCount |-> 0,
   exports |-> 0,                             \* calls of node.exportAsync
   requests |-> 0,                            \* fetches of the service
   responses |-> << >>,                       \* their statuses, 0 for no response
   waits |-> << >>,                           \* the setTimeout delays, in ms
   imageBytes |-> FALSE,                      \* exportNodeAsPng returned bytes
   body |-> NoBody,                           \* the parsed body of the response
   reviewText |-> << >>,                      \* the text taken from the body
   publishes |-> 0,                           \* fetches of the comment API
   message |-> << >>,                         \* the message of the comment
   publishStatus |-> -1,                      \* its status, 0 for no response
   posted |-> << >>,                          \* figma.ui.postMessage calls
   notices |-> << >>,                         \* figma.notify calls that tell a failure
   reason |-> "none", missing |-> {}]

Terminal == {"succeeded", "failed", "crashed"}
Active(run) == run.pc \notin Terminal \cup {"idle"}

\* a handler that saves whatever secret it is given
suppliedAny(apiKey, figmaToken) == Truthy(apiKey) \/ Truthy(figmaToken)

\* the else branch of  if (!currentApiKey || !currentFigmaToken)
suppliedBoth(apiKey, figmaToken) == Truthy(apiKey) /\ Truthy(figmaToken)

\* notify, post "finished", return; notice is the text of the notification
FailWith(run, reason, notice) ==
  [run EXCEPT !.pc = "failed", !.reason = reason,
              !.notices = Append(@, notice), !.posted = Append(@, Finished)]

\* every failure but a rejected selection has a notification text of its own
Fail(run, reason) == FailWith(run, reason, reason)

\* a validator with a notification text for each of its rules
selectionNoticePerRule(selection) == validateSelection(selection)

\* the text validateSelection notifies: the same for an empty selection and
\* for a node of another kind
selectionNotice(selection) ==
  IF Len(selection) > 1 THEN "SelectOnlyOne" ELSE "SelectFrame"

\* validateSelection and, for an accepted node, the call of exportNodeAsPng
validateAndExport(run, selection) ==
  LET seen == [run EXCEPT !.validated = TRUE, !.sel = selection] IN
  IF validateSelection(selection) # "ok"
    THEN FailWith(seen, "InvalidSelection", selectionNotice(selection))
    ELSE [seen EXCEPT !.pc = "export", !.exports = @ + 1,
                      !.selectedNode = selection[1]]

\* the run goes on as next; what it posted goes to the UI
Step(r, next) ==
  /\ runs' = [runs EXCEPT ![r] = next]
  /\ toUI' = toUI \o SubSeq(next.posted, Len(runs[r].posted) + 1, Len(next.posted))

\* the slot a new invocation takes: the first that holds no suspended handler
FreeSlot(r) ==
  /\ ~Active(runs[r])
  /\ \A q \in Slots : q < r => Active(runs[q])

-----------------------------------------------------------------------------
(* Initial state: figma.showUI has loaded the page, whose script has posted *)
(* the two load messages.  The storage holds what earlier sessions saved.   *)

StartPipeline ==
  /\ disabled = FALSE
  /\ toCore = <<LoadApiKey, LoadFigmaToken>>
  /\ toUI = << >>
  /\ loads = {}
  /\ runs = [r \in Slots |-> IdleRun]
  /\ closed = FALSE

StorageStates ==
  {[k \in StorageKeys |-> IF k = STORAGE_API_KEY THEN a ELSE t] :
     a \in ApiKeys \cup {Undefined}, t \in FigmaTokens \cup {Undefined}}

NoClean ==
  /\ cpc = "unused"
  /\ cin = << >>
  /\ cout = << >>
  /\ cout2 = << >>

Init ==
  /\ storage \in StorageStates
  /\ StartPipeline
  /\ NoClean

-----------------------------------------------------------------------------
(* The user and the UI page *)

\* getReviewButton.onclick; a disabled button takes no click.  apiKey and
\* figmaToken are the values of the two fields: what was loaded into them or
\* what the user has typed since, so any value
Click ==
  /\ ~closed
  /\ ~disabled
  /\ Len(toCore) < MaxQueue
  /\ \E apiKey \in ApiKeys \cup {""}, figmaToken \in FigmaTokens \cup {""} :
       toCore' = Append(toCore, GetReview(apiKey, figmaToken))
  /\ disabled' = setUiLoadingState(TRUE)
  /\ UNCHANGED <<storage, toUI, loads, runs, closed, cleanVars>>

\* window.onmessage: a loaded secret goes into its field (see Click), "loading"
\* and "finished" set the button, any other message is ignored
UiReceive ==
  /\ ~closed
  /\ toUI # << >>
  /\ LET message == Head(toUI) IN
       /\ toUI' = Tail(toUI)
       /\ disabled' =
            IF message.type = "loading" THEN setUiLoadingState(TRUE)
            ELSE IF message.type = "finished" THEN setUiLoadingState(FALSE)
            ELSE disabled
  /\ UNCHANGED <<storage, toCore, loads, runs, closed, cleanVars>>

\* the page and the sandbox are gone: the storage alone outlives them (runs
\* keeps the record of the run that closed the plugin until the next launch)
TornDown ==
  /\ disabled' = FALSE
  /\ toCore' = << >>
  /\ loads' = {}
  /\ closed' = TRUE

\* the user closes the plugin window: the suspended handlers are abandoned
UserClose ==
  /\ ~closed
  /\ TornDown
  /\ toUI' = << >>
  /\ runs' = [r \in Slots |-> IdleRun]
  /\ UNCHANGED <<storage, cleanVars>>

\* the user runs the plugin again: only the storage is kept
Relaunch ==
  /\ closed
  /\ disabled' = FALSE
  /\ toCore' = <<LoadApiKey, LoadFigmaToken>>
  /\ toUI' = << >>
  /\ loads' = {}
  /\ runs' = [r \in Slots |-> IdleRun]
  /\ closed' = FALSE
  /\ UNCHANGED <<storage, cleanVars>>

-----------------------------------------------------------------------------
(* figma.ui.onmessage: the load handlers *)

\* case "load-api-key" / "load-figma-token", up to the await of getAsync
OnLoad ==
  /\ ~closed
  /\ toCore # << >>
  /\ Head(toCore).type \in {"load-api-key", "load-figma-token"}
  /\ toCore' = Tail(toCore)
  /\ loads' = loads \cup {IF Head(toCore).type = "load-api-key"
                            THEN STORAGE_API_KEY ELSE STORAGE_FIGMA_TOKEN}
  /\ UNCHANGED <<storage, disabled, toUI, runs,
                 closed, cleanVars>>

\* getAsync resolves: the handler posts the value when there is one
LoadResolve(key) ==
  /\ ~closed
  /\ key \in loads
  /\ loads' = loads \ {key}
  /\ toUI' = toUI \o loadReply(key, storage[key])
  /\ UNCHANGED <<storage, disabled, toCore, runs,
                 closed, cleanVars>>

\* getAsync rejects: the handler ends, nothing is posted
LoadReject(key) ==
  /\ ~closed
  /\ key \in loads
  /\ loads' = loads \ {key}
  /\ UNCHANGED <<storage, disabled, toCore, toUI,
                 runs, closed, cleanVars>>

-----------------------------------------------------------------------------
(* figma.ui.onmessage, case "get-review": credential resolution *)

\* a handler that saves the key and not the token
afterSaveApiKeyAlone(run, selection) == validateAndExport(run, selection)

\* after saveApiKey:  if (figmaToken) await saveFigmaToken(figmaToken)
afterSaveApiKey(run, selection) ==
  IF Truthy(run.figmaToken) THEN [run EXCEPT !.pc = "saveFigmaToken"]
  ELSE validateAndExport(run, selection)

\* the handler up to its first await
startReview(message, selection) ==
  LET run == [IdleRun EXCEPT !.apiKey = message.apiKey,
                             !.figmaToken = message.figmaToken,
                             !.currentApiKey = message.apiKey,
                             !.currentFigmaToken = message.figmaToken] IN
  IF ~suppliedBoth(run.currentApiKey, run.currentFigmaToken)
    THEN [run EXCEPT !.pc = "getApiKey"]
  ELSE IF Truthy(run.apiKey) THEN [run EXCEPT !.pc = "saveApiKey"]
  ELSE afterSaveApiKey(run, selection)

\* a notice that never names the API key
missingItemsTokenOnly(storedApiKey, storedFigmaToken) ==
  {k \in StorageKeys : k = STORAGE_FIGMA_TOKEN /\ ~Truthy(storedFigmaToken)}

\* the missingItems of the notice
missingItems(storedApiKey, storedFigmaToken) ==
  {k \in StorageKeys :
     \/ k = STORAGE_API_KEY /\ ~Truthy(storedApiKey)
     \/ k = STORAGE_FIGMA_TOKEN /\ ~Truthy(storedFigmaToken)}

\* the handler receives a get-review message
OnGetReview(r) ==
  /\ ~closed
  /\ toCore # << >>
  /\ Head(toCore).type = "get-review"
  /\ FreeSlot(r)
  /\ toCore' = Tail(toCore)
  /\ \E selection \in Selections : Step(r, startReview(Head(toCore), selection))
  /\ UNCHANGED <<storage, disabled, loads, closed,
                 cleanVars>>

\* await getApiKey() resolves; getFigmaToken() is called
GetApiKeyResolve(r) ==
  /\ ~closed
  /\ runs[r].pc = "getApiKey"
  /\ Step(r, [runs[r] EXCEPT !.storedApiKey = getApiKey(storage),
                             !.pc = "getFigmaToken"])
  /\ UNCHANGED <<storage, disabled, toCore, loads,
                 closed, cleanVars>>

\* await getFigmaToken() resolves: a missing secret ends the run, else the
\* stored secrets are taken and the selection is validated
GetFigmaTokenResolve(r) ==
  /\ ~closed
  /\ runs[r].pc = "getFigmaToken"
  /\ LET storedApiKey == runs[r].storedApiKey
         storedFigmaToken == getFigmaToken(storage) IN
       IF ~Truthy(storedApiKey) \/ ~Truthy(storedFigmaToken)
         THEN Step(r, [Fail(runs[r], "MissingCredential") EXCEPT
                         !.missing = missingItems(storedApiKey, storedFigmaToken)])
         ELSE \E selection \in Selections :
                Step(r, validateAndExport(
                          [runs[r] EXCEPT !.currentApiKey = storedApiKey,
                                          !.currentFigmaToken = storedFigmaToken],
                          selection))
  /\ UNCHANGED <<storage, disabled, toCore, loads,
                 closed, cleanVars>>

\* await saveApiKey(apiKey) resolves: the key is stored
SaveApiKeyResolve(r) ==
  /\ ~closed
  /\ runs[r].pc = "saveApiKey"
  /\ storage' = saveApiKey(storage, runs[r].apiKey)
  /\ \E selection \in Selections :
       Step(r, afterSaveApiKey([runs[r] EXCEPT !.saved = @ \cup {STORAGE_API_KEY}],
                               selection))
  /\ UNCHANGED <<disabled, toCore, loads, closed,
                 cleanVars>>

\* await saveFigmaToken(figmaToken) resolves: the token is stored and the
\* selection is validated
SaveFigmaTokenResolve(r) ==
  /\ ~closed
  /\ runs[r].pc = "saveFigmaToken"
  /\ storage' = saveFigmaToken(storage, runs[r].figmaToken)
  /\ \E selection \in Selections :
       Step(r, validateAndExport(
                 [runs[r] EXCEPT !.saved = @ \cup {STORAGE_FIGMA_TOKEN}], selection))
  /\ UNCHANGED <<disabled, toCore, loads, closed,
                 cleanVars>>

\* a getAsync or setAsync of the handler rejects: nothing catches it, the
\* handler ends without a notice and without "finished"
StorageReject(r) ==
  /\ ~closed
  /\ runs[r].pc \in {"getApiKey", "getFigmaToken", "saveApiKey", "saveFigmaToken"}
  /\ Step(r, [runs[r] EXCEPT !.pc = "crashed", !.reason = "StorageError"])
  /\ UNCHANGED <<storage, disabled, toCore, loads,
                 closed, cleanVars>>

-----------------------------------------------------------------------------
(* case "get-review": export, service call, publication *)

\* an attempt counter kept across the calls: a call starts where the last
\* retry of any run stopped
retryCountKeptAcrossCalls ==
  CHOOSE n \in 0..MAX_RETRIES :
    /\ \E q \in Slots : runs[q].retryCount = n
    /\ \A q \in Slots : runs[q].retryCount <= n

\* the default of the parameter retryCount: the handler calls
\* requestGeminiAPI(currentApiKey, requestBody) without it
defaultRetryCount == 0

\* await exportNodeAsPng(selectedNode) returns: with bytes the request is
\* built and requestGeminiAPI sends it; without, the run has ended
ExportResolve(r) ==
  /\ ~closed
  /\ runs[r].pc = "export"
  /\ \E ok \in BOOLEAN :
       Step(r, IF ok THEN [runs[r] EXCEPT !.pc = "request", !.requests = @ + 1,
                                          !.retryCount = defaultRetryCount,
                                          !.imageBytes = TRUE]
               ELSE Fail(runs[r], "ExportFailure"))
  /\ UNCHANGED <<storage, disabled, toCore, loads,
                 closed, cleanVars>>

\* requestGeminiAPI after its fetch resolved with a response
requestGeminiAPI(run, status) ==
  LET got == [run EXCEPT !.responses = Append(@, status)] IN
  IF shouldRetry(status, run.retryCount)
    THEN [got EXCEPT !.pc = "backoff",
                     !.waits = Append(@, waitTime(run.retryCount)),
                     !.posted = Append(@, RetryNotification(
                                             waitTime(run.retryCount) \div 1000))]
  ELSE IF status = BUSY THEN Fail(got, "Busy")
  ELSE IF ~ResponseOk(status) THEN Fail(got, "Rejected")
  ELSE [got EXCEPT !.pc = "parse"]

\* the fetch of the service resolves
FetchResolve(r) ==
  /\ ~closed
  /\ runs[r].pc = "request"
  /\ \E status \in ServiceStatuses : Step(r, requestGeminiAPI(runs[r], status))
  /\ UNCHANGED <<storage, disabled, toCore, loads,
                 closed, cleanVars>>

\* the fetch of the service rejects (no response): the error reaches the
\* catch of the handler
FetchReject(r) ==
  /\ ~closed
  /\ runs[r].pc = "request"
  /\ Step(r, Fail([runs[r] EXCEPT !.responses = Append(@, 0)], "Transport"))
  /\ UNCHANGED <<storage, disabled, toCore, loads,
                 closed, cleanVars>>

\* a backoff whose promise is never resolved: the timer fires into nothing
\* and the call stays suspended
BackoffNeverResolved(r) ==
  /\ ~closed
  /\ runs[r].pc = "backoff"
  /\ UNCHANGED vars

\* the timer of the backoff fires: requestGeminiAPI(.., retryCount + 1)
BackoffElapsed(r) ==
  /\ ~closed
  /\ runs[r].pc = "backoff"
  /\ Step(r, [runs[r] EXCEPT !.pc = "request", !.retryCount = @ + 1,
                             !.requests = @ + 1])
  /\ UNCHANGED <<storage, disabled, toCore, loads,
                 closed, cleanVars>>

\* the message of the earlier handler: cleanReviewText(rawReviewText)
publishedMessageCleaned(reviewText) == cleanReviewText(reviewText)

\* the message postReviewCommentToFigma is called with: reviewText itself
publishedMessage(reviewText) == reviewText

\* a handler that sends the comment without a look at the file key
reviewReceivedAnyFileKey(run, body, fileKey) ==
  LET got == [run EXCEPT !.body = body] IN
  IF ~body.path \/ body.text = << >> THEN Fail(got, "MalformedResponse")
  ELSE [got EXCEPT !.reviewText = body.text, !.fileKey = fileKey,
                   !.pc = "publish", !.publishes = @ + 1,
                   !.commentNode = got.selectedNode,
                   !.message = publishedMessage(body.text)]

\* a handler that reads candidates[0].content.parts[0].text unchecked: a
\* missing path throws into the catch, an empty text is published
reviewReceivedUnchecked(run, body, fileKey) ==
  LET got == [run EXCEPT !.body = body] IN
  IF ~body.path THEN Fail(got, "TypeError")
  ELSE LET read == [got EXCEPT !.reviewText = body.text, !.fileKey = fileKey] IN
       IF ~Truthy(fileKey) THEN Fail(read, "NoFileKey")
       ELSE [read EXCEPT !.pc = "publish", !.publishes = @ + 1,
                         !.commentNode = read.selectedNode,
                         !.message = publishedMessage(read.reviewText)]

\* the handler with the parsed body: the text is checked, the file key is
\* read and postReviewCommentToFigma sends the text as it came
reviewReceived(run, body, fileKey) ==
  LET got == [run EXCEPT !.body = body] IN
  IF ~body.path \/ body.text = << >> THEN Fail(got, "MalformedResponse")
  ELSE LET read == [got EXCEPT !.reviewText = body.text, !.fileKey = fileKey] IN
       IF ~Truthy(fileKey) THEN Fail(read, "NoFileKey")
       ELSE [read EXCEPT !.pc = "publish", !.publishes = @ + 1,
                         !.commentNode = read.selectedNode,
                         !.message = publishedMessage(read.reviewText)]

\* await response.json() resolves
ParseResolve(r) ==
  /\ ~closed
  /\ runs[r].pc = "parse"
  /\ \E body \in Bodies, fileKey \in FileKeys :
       Step(r, reviewReceived(runs[r], body, fileKey))
  /\ UNCHANGED <<storage, disabled, toCore, loads,
                 closed, cleanVars>>

\* await response.json() rejects (the body is no JSON)
ParseReject(r) ==
  /\ ~closed
  /\ runs[r].pc = "parse"
  /\ Step(r, Fail(runs[r], "UnparsableResponse"))
  /\ UNCHANGED <<storage, disabled, toCore, loads,
                 closed, cleanVars>>

\* a publisher that takes every response for a success
commentPostedByAnyResponse(status) == status # 0

\* postReviewCommentToFigma: true for a response that is ok, false for any
\* other response and for a fetch that rejected (status 0)
commentPosted(status) == ResponseOk(status)

\* postReviewCommentToFigma returns true (the status is ok): closePlugin
PublishOk(r) ==
  /\ ~closed
  /\ runs[r].pc = "publish"
  /\ \E status \in PublishStatuses :
       /\ commentPosted(status)
       /\ runs' = [runs EXCEPT ![r] = [@ EXCEPT !.pc = "succeeded",
                                                !.publishStatus = status]]
  /\ TornDown
  /\ toUI' = << >>
  /\ UNCHANGED <<storage, cleanVars>>

\* postReviewCommentToFigma returns false (a status that is not ok, or the
\* fetch rejected: status 0): "finished" is posted
PublishFailed(r) ==
  /\ ~closed
  /\ runs[r].pc = "publish"
  /\ \E status \in PublishStatuses \cup {0} :
       /\ ~commentPosted(status)
       /\ Step(r, Fail([runs[r] EXCEPT !.publishStatus = status], "PublishError"))
  /\ UNCHANGED <<storage, disabled, toCore, loads,
                 closed, cleanVars>>

-----------------------------------------------------------------------------
(* The plugin *)

Next ==
  \/ Click
  \/ UiReceive
  \/ UserClose
  \/ Relaunch
  \/ OnLoad
  \/ \E key \in StorageKeys : LoadResolve(key)
  \/ \E key \in StorageKeys : LoadReject(key)
  \/ \E r \in Slots : OnGetReview(r)
  \/ \E r \in Slots : GetApiKeyResolve(r)
  \/ \E r \in Slots : GetFigmaTokenResolve(r)
  \/ \E r \in Slots : SaveApiKeyResolve(r)
  \/ \E r \in Slots : SaveFigmaTokenResolve(r)
  \/ \E r \in Slots : StorageReject(r)
  \/ \E r \in Slots : ExportResolve(r)
  \/ \E r \in Slots : FetchResolve(r)
  \/ \E r \in Slots : FetchReject(r)
  \/ \E r \in Slots : BackoffElapsed(r)
  \/ \E r \in Slots : ParseResolve(r)
  \/ \E r \in Slots : ParseReject(r)
  \/ \E r \in Slots : PublishOk(r)
  \/ \E r \in Slots : PublishFailed(r)

Spec == Init /\ [][Next]_vars

\* The plugin with its timers and its service: every fetch of the service
\* settles (it resolves or rejects) and every timer of a backoff fires.
ServiceSettles ==
  /\ WF_vars(\E r \in Slots : FetchResolve(r) \/ FetchReject(r))
  /\ WF_vars(\E r \in Slots : BackoffElapsed(r))

SpecLive == Init /\ [][Next]_vars /\ ServiceSettles

-----------------------------------------------------------------------------
(* The handler under a page that posts get-review while a run is under way: *)
(* a suspended handler does not keep the next message from being handled,   *)
(* so the service calls of several runs are under way at once               *)

\* the page is loaded and the two load messages are answered; the storage
\* holds a pair of secrets, or lacks the key
InitCalls ==
  /\ storage \in {st \in StorageStates : st[STORAGE_API_KEY] \in {"k1", Undefined}
                                          /\ st[STORAGE_FIGMA_TOKEN] = "t1"}
  /\ disabled = FALSE
  /\ toCore = << >>
  /\ toUI = << >>
  /\ loads = {}
  /\ runs = [r \in Slots |-> IdleRun]
  /\ closed = FALSE
  /\ NoClean

\* a get-review message is posted to the sandbox, with the two fields empty,
\* by a page that has handled the messages it got
PostGetReview ==
  /\ ~closed
  /\ Len(toCore) < MaxPending
  /\ toUI = << >>
  /\ toCore' = Append(toCore, GetReview("", ""))
  /\ UNCHANGED <<storage, disabled, toUI, loads, runs, closed, cleanVars>>

\* the runs up to the end of their service calls
NextCalls ==
  \/ PostGetReview
  \/ UiReceive
  \/ \E r \in Slots : OnGetReview(r)
  \/ \E r \in Slots : GetApiKeyResolve(r)
  \/ \E r \in Slots : GetFigmaTokenResolve(r)
  \/ \E r \in Slots : StorageReject(r)
  \/ \E r \in Slots : ExportResolve(r)
  \/ \E r \in Slots : FetchResolve(r)
  \/ \E r \in Slots : FetchReject(r)
  \/ \E r \in Slots : BackoffElapsed(r)

SpecCalls == InitCalls /\ [][NextCalls]_vars

-----------------------------------------------------------------------------
(* The sanitizer applied to every text of the alphabet, and applied again *)
(* to its own output                                                       *)

InitClean ==
  /\ storage = [k \in StorageKeys |-> Undefined]
  /\ StartPipeline
  /\ cpc = "input"
  /\ cin \in Texts
  /\ cout = << >>
  /\ cout2 = << >>

Clean ==
  /\ cpc = "input"
  /\ cout' = cleanReviewText(cin)
  /\ cpc' = "cleaned"
  /\ UNCHANGED <<pipeVars, cin, cout2>>

CleanAgain ==
  /\ cpc = "cleaned"
  /\ cout2' = cleanReviewText(cout)
  /\ cpc' = "recleaned"
  /\ UNCHANGED <<pipeVars, cin, cout>>

NextClean == Clean \/ CleanAgain

SpecClean == InitClean /\ [][NextClean]_vars

-----------------------------------------------------------------------------
(* Properties of the review pipeline (specification Spec) *)

GetReviewsQueued ==
  Cardinality({i \in 1..Len(toCore) : toCore[i].type = "get-review"})
ActiveRuns == {r \in Slots : Active(runs[r])}

Rejectable(selection) ==
  \/ Len(selection) = 0
  \/ Len(selection) > 1
  \/ Len(selection) = 1 /\ selection[1] \notin {"FRAME", "COMPONENT", "INSTANCE"}

\* C2: a run that validates an empty selection, a selection of several nodes
\* or a single node that is no FRAME, COMPONENT or INSTANCE ends failed with
\* InvalidSelection, and has exported nothing and sent no request to the
\* service or to the comment API.
InvalidSelectionNoCalls ==
  \A r \in Slots :
    runs[r].validated /\ Rejectable(runs[r].sel) =>
      /\ runs[r].pc = "failed"
      /\ runs[r].reason = "InvalidSelection"
      /\ runs[r].exports = 0
      /\ runs[r].requests = 0
      /\ runs[r].publishes = 0

\* a run found two nodes selected
InvalidSelectionWitness ==
  \E r \in Slots : runs[r].validated /\ runs[r].sel = <<"FRAME", "FRAME">>
                   /\ runs[r].pc = "failed"

BusyResponses(run) == {i \in 1..Len(run.responses) : run.responses[i] = 503}

\* C3: the wait after the 503 of attempt k (k = 0, 1, 2) is 1000 * 2^k ms,
\* every 503 of these attempts is followed by its wait, there are at most 3
\* waits and 4 requests in one call, and the 4th consecutive 503 fails the
\* call as Busy with no further request.
RetryBackoff ==
  \A r \in Slots :
    LET run == runs[r] IN
      /\ Len(run.waits) <= 3
      /\ run.requests <= 4
      /\ \A k \in 1..Len(run.waits) : run.waits[k] = <<1000, 2000, 4000>>[k]
      /\ \A i \in BusyResponses(run) : i <= 3 => Len(run.waits) >= i
      /\ 4 \in BusyResponses(run) =>
           run.pc = "failed" /\ run.reason = "Busy" /\ run.requests = 4

\* a fourth request is under way after waits of 1, 2 and 4 seconds
RetryBackoffWitness ==
  \E r \in Slots : runs[r].waits = <<1000, 2000, 4000>> /\ runs[r].pc = "request"
                   /\ runs[r].requests = 4

\* C4: a run whose service answered 503 four times in a row has ended failed
\* as Busy, has posted to the UI exactly the three retry notices of 1, 2 and
\* 4 seconds, in this order, and then "finished", and has published nothing.
BusyScenario ==
  \A r \in Slots :
    runs[r].responses = <<503, 503, 503, 503>> =>
      /\ runs[r].pc = "failed"
      /\ runs[r].reason = "Busy"
      /\ runs[r].posted = <<RetryNotification(1), RetryNotification(2),
                            RetryNotification(4), Finished>>
      /\ runs[r].publishes = 0

\* the service was busy four times
BusyScenarioWitness ==
  \E r \in Slots : Len(runs[r].responses) = 4 /\ runs[r].reason = "Busy"

\* C5: a response that is neither a success nor a 503, or no response at all
\* (status 0), is the last of its run, at whatever attempt it comes: no wait
\* and no request follows it and the run has failed.
OnlyBusyRetried ==
  \A r \in Slots :
    \A i \in 1..Len(runs[r].responses) :
      LET status == runs[r].responses[i] IN
        status # 503 /\ ~(status >= 200 /\ status <= 299) =>
          /\ i = Len(runs[r].responses)
          /\ runs[r].requests = i
          /\ Len(runs[r].waits) = i - 1
          /\ runs[r].pc = "failed"
          /\ runs[r].reason \in {"Rejected", "Transport"}

\* a retry was answered 400, another got no response
OnlyBusyRetriedWitness ==
  /\ \E r \in Slots : runs[r].responses = <<503, 400>> /\ runs[r].reason = "Rejected"
                      /\ runs[r].requests = 2

SuppliedBoth(run) == Truthy(run.apiKey) /\ Truthy(run.figmaToken)
SuppliedOne(run) == Truthy(run.apiKey) # Truthy(run.figmaToken)
\* the handler is past its saves
Saved(run) == run.pc \notin {"idle", "saveApiKey", "saveFigmaToken", "crashed"}

\* C8: once a run whose command supplies both secrets is past its saves, the
\* storage holds exactly the two supplied values, whatever it held before,
\* and a load of either key replies with the supplied value.
BothSuppliedStored ==
  \A r \in Slots :
    SuppliedBoth(runs[r]) /\ Saved(runs[r]) =>
      /\ storage[STORAGE_API_KEY] = runs[r].apiKey
      /\ storage[STORAGE_FIGMA_TOKEN] = runs[r].figmaToken
      /\ loadReply(STORAGE_API_KEY, getApiKey(storage)) =
           <<ApiKeyLoaded(runs[r].apiKey)>>
      /\ loadReply(STORAGE_FIGMA_TOKEN, getFigmaToken(storage)) =
           <<FigmaTokenLoaded(runs[r].figmaToken)>>

\* both secrets are saved while the reply of an earlier load still carries
\* the key stored before
BothSuppliedStoredWitness ==
  \E r \in Slots :
    /\ SuppliedBoth(runs[r]) /\ Saved(runs[r])
    /\ \E i \in 1..Len(toUI) : /\ toUI[i].type = "api-key-loaded"
                               /\ toUI[i].apiKey # runs[r].apiKey

\* the handler is past its reads of the storage
Resolved(run) == run.pc \notin {"idle", "getApiKey", "getFigmaToken", "crashed"}
Absent(st) == {k \in StorageKeys : ~Truthy(st[k])}

StorageWrittenOnlyByBoth ==
  [][storage' # storage =>
       \E r \in Slots :
         /\ SuppliedBoth(runs[r])
         /\ runs'[r] # runs[r]
         /\ \/ /\ runs[r].pc = "saveApiKey"
               /\ storage' = [storage EXCEPT ![STORAGE_API_KEY] = runs[r].apiKey]
            \/ /\ runs[r].pc = "saveFigmaToken"
               /\ storage' = [storage EXCEPT ![STORAGE_FIGMA_TOKEN] =
                                                runs[r].figmaToken]
    ]_vars

\* a run that supplied the API key alone is exporting, and the storage still
\* holds another key
StorageWrittenOnlyByBothWitness ==
  \E r \in Slots :
    /\ runs[r].apiKey = "k1" /\ runs[r].figmaToken = ""
    /\ runs[r].pc = "export"
    /\ storage[STORAGE_API_KEY] = "k2"

-----------------------------------------------------------------------------
(* Credential resolution, publication and failure handling *)

\* the secret a command supplied under a storage key
Supplied(run, k) == IF k = STORAGE_API_KEY THEN run.apiKey ELSE run.figmaToken
\* the secrets found neither in the command nor in the storage
StillAbsent(run, st) ==
  {k \in StorageKeys : ~Truthy(Supplied(run, k)) /\ ~Truthy(st[k])}

\* C11 as claimed: a run whose command lacks a secret fails with
\* MissingCredential exactly when a secret is absent from the command and from
\* the storage; the failure names exactly these secrets, and the run
\* validates no selection, exports nothing and makes no network call.
MissingCredentialExact ==
  \A r \in Slots :
    ~SuppliedBoth(runs[r]) /\ Resolved(runs[r]) =>
      /\ runs[r].reason = "MissingCredential" <=> StillAbsent(runs[r], storage) # {}
      /\ runs[r].reason = "MissingCredential" =>
            /\ runs[r].missing = StillAbsent(runs[r], storage)
            /\ ~runs[r].validated
            /\ runs[r].exports = 0 /\ runs[r].requests = 0 /\ runs[r].publishes = 0

\* the comment API answered the publish request of the run with an ok status
PublishedOk(run) == run.publishStatus >= 200 /\ run.publishStatus <= 299

\* C12 as claimed: a run with one supported node, its credentials, a service
\* response with a non-empty text and an ok answer to its publish request ends
\* succeeded after exactly one publish request, whose message is the
\* sanitized text of the response.
EndToEndSuccess ==
  \A r \in Slots :
    PublishedOk(runs[r]) =>
      /\ runs[r].pc = "succeeded"
      /\ runs[r].publishes = 1
      /\ runs[r].message = cleanReviewText(runs[r].reviewText)

\* C13 as claimed: the message of every publish request is the sanitized
\* response text, so it holds no decoration character and no run of three
\* newlines.
PublishedIsSanitized ==
  \A r \in Slots :
    runs[r].publishes > 0 =>
      LET m == runs[r].message IN
      /\ m = cleanReviewText(runs[r].reviewText)
      /\ \A i \in 1..Len(m) : m[i] \notin Decoration
      /\ \A i \in 1..Len(m) :
           ~(i + 2 <= Len(m) /\ m[i] = NL /\ m[i + 1] = NL /\ m[i + 2] = NL)

\* C14 as claimed: the stages of a run are sequential.  An export has begun
\* only after validateSelection accepted the selection, a service request
\* only after the export returned bytes, and a publish request only after an
\* ok response whose text was taken from the body and sanitized.
StagesSequential ==
  \A r \in Slots :
    /\ runs[r].exports > 0 => runs[r].validated /\ ~Rejectable(runs[r].sel)
    /\ runs[r].requests > 0 => runs[r].exports > 0 /\ runs[r].imageBytes
    /\ runs[r].publishes > 0 =>
         /\ runs[r].requests > 0
         /\ ResponseOk(runs[r].responses[Len(runs[r].responses)])
         /\ runs[r].body.path /\ runs[r].body.text # << >>
         /\ runs[r].reviewText = runs[r].body.text
         /\ runs[r].message = cleanReviewText(runs[r].reviewText)

\* C15 as claimed: every run that a failure ended, in whatever stage, has
\* told the user with a notice and then posted "finished" to the UI; no
\* failure ends the handler uncaught.
EveryFailureHandled ==
  \A r \in Slots :
    runs[r].pc \in {"failed", "crashed"} =>
      /\ runs[r].notices # << >>
      /\ runs[r].posted # << >>
      /\ runs[r].posted[Len(runs[r].posted)] = Finished

\* C16 as claimed: a storage error never ends a run.  A run whose read of the
\* storage failed goes on as if the value were absent, a run whose write
\* failed goes on to validate the selection.
StorageErrorsNeverFail ==
  \A r \in Slots : runs[r].reason = "StorageError" => Active(runs[r])

\* the body of an ok response lacks the text: no candidate, no part, or an
\* empty text
Malformed(body) == body # NoBody /\ (~body.path \/ body.text = << >>)

\* C17: a run whose ok response has a body without a candidate, without a
\* part or with an empty text ends failed as a malformed response, with a
\* notice and "finished" as its last message; it makes no publish request and
\* the handler does not end uncaught.
MalformedResponseFails ==
  \A r \in Slots :
    Malformed(runs[r].body) =>
      /\ runs[r].pc = "failed"
      /\ runs[r].reason = "MalformedResponse"
      /\ runs[r].notices = <<"MalformedResponse">>
      /\ runs[r].posted[Len(runs[r].posted)] = Finished
      /\ runs[r].publishes = 0

\* an ok response, after a retry, whose body has no candidate has ended a run
MalformedResponseWitness ==
  \E r \in Slots :
    /\ runs[r].responses = <<503, 200>>
    /\ runs[r].body = [path |-> FALSE, text |-> << >>]
    /\ runs[r].pc = "failed"

\* C18: a run makes at most one publish request and repeats none.  Once the
\* request is answered, an ok status (200..299) has ended the run succeeded,
\* and any other status, or no response at all, has ended it failed as a
\* publish error, with a notice, "finished" as its last message and still
\* one request made.
PublishOnce ==
  \A r \in Slots :
    /\ runs[r].publishes <= 1
    /\ runs[r].publishStatus # -1 =>
         /\ runs[r].publishes = 1
         /\ IF PublishedOk(runs[r])
              THEN runs[r].pc = "succeeded" /\ runs[r].notices = << >>
              ELSE /\ runs[r].pc = "failed"
                   /\ runs[r].reason = "PublishError"
                   /\ runs[r].notices = <<"PublishError">>
                   /\ runs[r].posted[Len(runs[r].posted)] = Finished
    /\ runs[r].pc = "succeeded" \/ runs[r].reason = "PublishError" =>
         runs[r].publishStatus # -1

\* the comment API refused the one publish request of a run
PublishOnceWitness ==
  \E r \in Slots :
    /\ runs[r].publishStatus = 403
    /\ runs[r].publishes = 1
    /\ runs[r].pc = "failed"

\* the rule of the validator that rejects a selection, taking the rules in
\* order
RejectionCase(selection) ==
  IF Len(selection) = 0 THEN "NoSelection"
  ELSE IF Len(selection) > 1 THEN "MultipleSelection"
  ELSE IF selection[1] \notin ContainerKinds THEN "UnsupportedKind"
  ELSE "ok"

\* the rules whose rejections show the user the notice n
CasesOfNotice(n) ==
  {RejectionCase(s) : s \in {t \in Selections : Rejectable(t) /\ selectionNotice(t) = n}}

\* C19 as claimed: a run that ends on a rejected selection was rejected by the
\* first rule that applies to it (empty, more than one member, sole member of
\* an unsupported kind), and the notice it showed the user is shown for that
\* rule alone, which tells the three cases apart.
RejectionsToldApart ==
  \A r \in Slots :
    runs[r].reason = "InvalidSelection" =>
      /\ validateSelection(runs[r].sel) = RejectionCase(runs[r].sel)
      /\ CasesOfNotice(runs[r].notices[1]) = {RejectionCase(runs[r].sel)}

\* C19: a run that ends on a rejected selection was rejected by the first
\* rule that applies to it, and showed the user one notice: the request to
\* select only one node for more than one member, the request to select a
\* frame, component or instance for an empty selection and for a sole member
\* of an unsupported kind alike.
RejectionNotices ==
  \A r \in Slots :
    runs[r].reason = "InvalidSelection" =>
      /\ RejectionCase(runs[r].sel) # "ok"
      /\ runs[r].notices =
           <<IF RejectionCase(runs[r].sel) = "MultipleSelection"
               THEN "SelectOnlyOne" ELSE "SelectFrame">>

\* a run was rejected for a sole TEXT node with the notice of the empty
\* selection
RejectionNoticesWitness ==
  \E r \in Slots :
    /\ runs[r].reason = "InvalidSelection"
    /\ runs[r].sel = <<"TEXT">>
    /\ runs[r].notices = <<"SelectFrame">>

-----------------------------------------------------------------------------
(* Outcomes of a retried service call (specification SpecLive) *)

\* the service call of the run has got a 503
Retried(run) == BusyResponses(run) # {}
\* the call is under way after a 503: waiting for a backoff or for a response
Retrying(run) == Retried(run) /\ run.pc \in {"request", "backoff"}
LastResponse(run) == run.responses[Len(run.responses)]

\* C20 as claimed: a service call that got a 503 and is no longer under way
\* either got an ok response, the success path, or failed as Busy; it has no
\* other outcome.
RetriedSucceedsOrBusy ==
  \A r \in Slots :
    Retried(runs[r]) /\ ~Retrying(runs[r]) =>
      \/ ResponseOk(LastResponse(runs[r]))
      \/ runs[r].pc = "failed" /\ runs[r].reason = "Busy"

\* the service stage of the run is over, or the plugin was closed under it
RetryOutcome(run) ==
  \/ run.pc = "parse"
  \/ run.pc = "failed" /\ run.reason \in {"Busy", "Rejected", "Transport"}
  \/ run.pc = "idle"

\* C20: a service call that got a 503 is retried until, eventually, it gets
\* an ok response (the success path), fails as Busy on the 4th 503, fails as
\* Rejected on another status or fails as Transport on a fetch without
\* response, unless the plugin is closed first; the call has no other
\* outcome, and all its responses before the last are 503s.
RetryEnds ==
  /\ [](\A r \in Slots :
          Retried(runs[r]) /\ ~Retrying(runs[r]) =>
            /\ \A i \in 1..(Len(runs[r].responses) - 1) : runs[r].responses[i] = 503
            /\ \/ ResponseOk(LastResponse(runs[r]))
               \/ /\ runs[r].pc = "failed"
                  /\ runs[r].reason =
                       (IF LastResponse(runs[r]) = 503 THEN "Busy"
                        ELSE IF LastResponse(runs[r]) = 0 THEN "Transport"
                        ELSE "Rejected"))
  /\ \A r \in Slots : Retrying(runs[r]) ~> RetryOutcome(runs[r])

\* a call that got a 503 and then a 400 has ended the run as Rejected
RetryEndsWitness ==
  \E r \in Slots :
    /\ runs[r].responses = <<503, 400>>
    /\ runs[r].pc = "failed"
    /\ runs[r].reason = "Rejected"

-----------------------------------------------------------------------------
(* Notices, termination and the button (specifications Spec and SpecLive) *)

\* the messages of one type among those a run posted
PostedOf(run, type) == {i \in 1..Len(run.posted) : run.posted[i].type = type}
\* a failure ended the run
Ended(run) == run.pc \in {"failed", "crashed"}

\* C21 as claimed: every run that a failure ended showed the user exactly one
\* failure notice and posted exactly one "finished"; a run that no failure
\* ended showed none, and the retries after a 503 are told as progress
\* messages, one for each wait, with a failure notice only when the retries
\* are exhausted.
OneNoticeOneFinished ==
  \A r \in Slots :
    /\ Ended(runs[r]) =>
         /\ Len(runs[r].notices) = 1
         /\ Cardinality(PostedOf(runs[r], "finished")) = 1
    /\ ~Ended(runs[r]) => runs[r].notices = << >>
    /\ Cardinality(PostedOf(runs[r], "retry-notification")) = Len(runs[r].waits)
    /\ Retried(runs[r]) /\ runs[r].notices = <<"Busy">> =>
         Cardinality(BusyResponses(runs[r])) = 4

\* "finished" is under way to the page
FinishedUnderWay == \E i \in 1..Len(toUI) : toUI[i] = Finished

\* C22 as claimed: after a run that a failure ended, the button of the page
\* is enabled again, or the "finished" that enables it is under way to the
\* page; it is never left disabled with nothing under way that enables it.
\* (A button disabled by the click that starts the next run is not counted.)
ButtonFreedAfterFailure ==
  \A r \in Slots :
    Ended(runs[r]) /\ GetReviewsQueued = 0 => ~disabled \/ FinishedUnderWay

-----------------------------------------------------------------------------
(* The attempt counter of concurrent service calls (specification SpecCalls) *)

\* C23: the attempt counter belongs to one service call.  Whatever other
\* runs have done or are doing, the first request of a run is attempt 0, the
\* counter of a run counts the waits of that run alone, its waits are 1000,
\* 2000, 4000 ms in this order, and it fails as Busy only on four 503s of
\* its own.
RetryCountPerCall ==
  \A r \in Slots :
    LET run == runs[r] IN
      /\ run.retryCount = Len(run.waits) - (IF run.pc = "backoff" THEN 1 ELSE 0)
      /\ run.requests = (IF run.imageBytes THEN run.retryCount + 1 ELSE 0)
      /\ \A k \in 1..Len(run.waits) : run.waits[k] = <<1000, 2000, 4000>>[k]
      /\ Len(run.waits) <= 3
      /\ run.reason = "Busy" => run.responses = <<503, 503, 503, 503>>

\* a run sends its first request, as attempt 0, while the call of another run
\* is at its last attempt
RetryCountPerCallWitness ==
  \E r, q \in Slots :
    /\ runs[q].pc = "request" /\ runs[q].retryCount = 3
    /\ runs[r].pc = "request" /\ runs[r].requests = 1 /\ runs[r].retryCount = 0

\* C25 as claimed: a run makes at most 4 service requests and at most 1
\* publish request, and a run whose handler has ended has ended succeeded,
\* with the plugin closed, or failed, with "finished" as its last message.
EveryRunEnds ==
  \A r \in Slots :
    /\ runs[r].requests <= 4
    /\ runs[r].publishes <= 1
    /\ runs[r].pc # "idle" /\ ~Active(runs[r]) =>
         \/ runs[r].pc = "succeeded" /\ closed
         \/ /\ runs[r].pc = "failed"
            /\ runs[r].posted # << >>
            /\ runs[r].posted[Len(runs[r].posted)] = Finished

\* C26 as claimed: the service request of a run whose command carries a key
\* is made with that key, and the publish request of a run whose command
\* carries a token is made with that token, also when the other secret comes
\* from the storage.
SuppliedSecretUsed ==
  \A r \in Slots :
    /\ runs[r].requests > 0 /\ Truthy(runs[r].apiKey) =>
         runs[r].currentApiKey = runs[r].apiKey
    /\ runs[r].publishes > 0 /\ Truthy(runs[r].figmaToken) =>
         runs[r].currentFigmaToken = runs[r].figmaToken

-----------------------------------------------------------------------------
(* The stored pair of secrets (specification Spec) *)

\* C27 as claimed: the storage never ends up with the key of one run beside
\* the token of another: once a run that supplied both secrets has ended, and
\* has stored its key, the storage holds its token too.
StoredPairOfOneRun ==
  \A r \in Slots :
    /\ SuppliedBoth(runs[r])
    /\ runs[r].pc \in Terminal
    /\ STORAGE_API_KEY \in runs[r].saved
    => storage[STORAGE_FIGMA_TOKEN] = runs[r].figmaToken

\* C27: the secrets are stored key by key, not as a pair.  A run that
\* supplied both sets the key first and the token after it; once it is past
\* both saves the storage holds its pair; a run that a failing save ended has
\* set the key alone or nothing, which can leave its key beside the token
\* stored before.  A run that did not supply both sets nothing.
StoredKeyByKey ==
  \A r \in Slots :
    /\ ~SuppliedBoth(runs[r]) => runs[r].saved = {}
    /\ SuppliedBoth(runs[r]) =>
         /\ STORAGE_API_KEY \in runs[r].saved =>
              storage[STORAGE_API_KEY] = runs[r].apiKey
         /\ STORAGE_FIGMA_TOKEN \in runs[r].saved =>
              /\ runs[r].saved = StorageKeys
              /\ storage[STORAGE_FIGMA_TOKEN] = runs[r].figmaToken
         /\ Saved(runs[r]) => runs[r].saved = StorageKeys
         /\ runs[r].pc = "crashed" => STORAGE_FIGMA_TOKEN \notin runs[r].saved

\* the save of the token failed after the key of the run was stored: the
\* storage holds the key of this run beside the token of an earlier one
StoredKeyByKeyWitness ==
  \E r \in Slots :
    /\ runs[r].apiKey = "k1" /\ runs[r].figmaToken = "t1"
    /\ runs[r].pc = "crashed"
    /\ runs[r].saved = {STORAGE_API_KEY}
    /\ storage = [k \in StorageKeys |-> IF k = STORAGE_API_KEY THEN "k1" ELSE "t2"]

-----------------------------------------------------------------------------
(* The file key and the node of the comment (specification Spec) *)

\* C28: a run that finds no file key after an ok response with a text ends
\* failed, with its notice and "finished" as its last message, and makes no
\* publish request; a publish request is made only with a file key that is
\* present and for the node that validateSelection accepted in the same run.
FileKeyRequired ==
  \A r \in Slots :
    /\ runs[r].fileKey = Undefined =>
         /\ runs[r].pc = "failed"
         /\ runs[r].reason = "NoFileKey"
         /\ runs[r].notices = <<"NoFileKey">>
         /\ runs[r].posted[Len(runs[r].posted)] = Finished
         /\ runs[r].publishes = 0
    /\ runs[r].publishes > 0 =>
         /\ runs[r].fileKey \in FileKeys \ {Undefined}
         /\ runs[r].validated /\ ~Rejectable(runs[r].sel)
         /\ runs[r].commentNode = runs[r].sel[1]

\* a run whose service answered with a text after a retry found no file key
FileKeyRequiredWitness ==
  \E r \in Slots :
    /\ runs[r].responses = <<503, 200>>
    /\ runs[r].reviewText # << >>
    /\ runs[r].fileKey = Undefined
    /\ runs[r].pc = "failed"

-----------------------------------------------------------------------------
(* Properties of the sanitizer (specification SpecClean) *)

\* text holds a run of n newlines
HasNewlineRun(text, n) ==
  \E i \in 1..Len(text) :
    i + n - 1 <= Len(text) /\ \A j \in i..(i + n - 1) : text[j] = "\n"

\* text holds two adjacent lines that are empty or hold only white space:
\* a stretch of white space with three newlines in it
HasAdjacentBlankLines(text) ==
  \E i, k \in 1..Len(text) :
    /\ i < k
    /\ \A j \in i..k : text[j] \in {"\n", " "}
    /\ Cardinality({j \in i..k : text[j] = "\n"}) >= 3

\* C6: the sanitizer is idempotent: applied to its own output it returns it.
CleanIdempotent == cpc = "recleaned" => cout2 = cout

\* a text the sanitizer changes, and not to the empty text
CleanIdempotentWitness ==
  cpc = "recleaned" /\ cout # cin /\ cout # << >> /\ Len(cout) < Len(cin) - 1

\* C7 as claimed: the output has no run of three newlines and no two
\* adjacent lines that are empty or hold only white space.
CleanNoAdjacentBlankLines ==
  cpc # "input" => ~HasNewlineRun(cout, 3) /\ ~HasAdjacentBlankLines(cout)

\* C7 as the sanitizer does it: the output has no run of three or more
\* newlines, also when the newlines of the input are separated only by
\* decoration characters; lines of white space are not collapsed.
CleanNoNewlineRun == cpc # "input" => ~HasNewlineRun(cout, 3)

\* the newlines of the input are separated by a decoration character and
\* make a run of three without it
CleanNoNewlineRunWitness ==
  /\ cpc = "cleaned"
  /\ ~HasNewlineRun(cin, 3)
  /\ \E i \in 1..(Len(cin) - 3) :
       /\ cin[i] = "\n" /\ cin[i + 1] = "*" /\ cin[i + 2] = "\n" /\ cin[i + 3] = "\n"
       /\ i > 1 /\ cin[1] = "a" /\ cin[Len(cin)] = "a"

\* the characters of kind, in the order they have in text
Only(text, kind) == SelectSeq(text, LAMBDA c : c \in kind)

\* part can be got from whole by removing characters
RECURSIVE IsSubsequence(_, _)
IsSubsequence(part, whole) ==
  IF part = << >> THEN TRUE
  ELSE IF whole = << >> THEN FALSE
  ELSE IF Head(part) = Head(whole) THEN IsSubsequence(Tail(part), Tail(whole))
  ELSE IsSubsequence(part, Tail(whole))

\* the positions of text from its first to its last character that is no
\* decoration and no white space
Inner(text) ==
  LET solid == {i \in 1..Len(text) : text[i] \notin Decoration \cup Whitespace} IN
  {i \in 1..Len(text) : \E a, b \in solid : a <= i /\ i <= b}

\* C24: the sanitizer keeps the structural markers.  Every "#" and every "-"
\* of the input is in the output, in the same order; the output is the input
\* with characters removed, and the removed ones are decoration characters,
\* newlines and outer white space only: every other character is kept in its
\* order, and so is every space between kept characters.
CleanKeepsMarkers ==
  cpc # "input" =>
    /\ Only(cout, {"#", "-"}) = Only(cin, {"#", "-"})
    /\ IsSubsequence(cout, cin)
    /\ Only(cout, Alphabet \ (Decoration \cup Whitespace))
         = Only(cin, Alphabet \ (Decoration \cup Whitespace))
    /\ Only(cout, Decoration) = << >>
    /\ Cardinality({i \in 1..Len(cout) : cout[i] = SP})
         = Cardinality({i \in Inner(cin) : cin[i] = SP})

\* a text with a heading and a bullet marker among decoration and newlines,
\* which the sanitizer shortens to both markers and what is between them
CleanKeepsMarkersWitness ==
  /\ cpc = "cleaned"
  /\ cin = <<"*", "#", NL, NL, NL, "-">>
  /\ cout = <<"#", NL, NL, "-">>

====
